---- MODULE Spec2Model ----
(***************************************************************************)
(* Model of src/scripts/fetch.js: the incremental Drive -> local directory *)
(* synchronisation (loadState, listFolder, downloadBinary, syncFolder,     *)
(* main, the media map).                                                   *)
(*                                                                         *)
(* Representation.  A JavaScript string that the code inspects character   *)
(* by character (names, mime types, paths) is a sequence of one-character  *)
(* strings.  File ids and timestamps are only compared for equality; ids   *)
(* are TLA+ strings and modifiedTime values are positive integers.  A      *)
(* JavaScript object used as a map (Record<string, T>) is a sequence of    *)
(* [key, val] pairs in insertion order.  A missing / undefined string is   *)
(* the empty sequence (both are falsy in the code's tests).  The           *)
(* credentials and GOOGLE_DRIVE_FOLDER_ID are set: env() does not throw.   *)
(*                                                                         *)
(* Specifications.  Spec: runs of main() with failing calls, between which *)
(* files of the drive are trashed, restored and edited.  SpecRename: runs  *)
(* between which files and folders are also renamed.  SpecTamper: runs     *)
(* between which the local tree is changed behind the program's back.      *)
(* SpecSafeName: runs over a drive with one file, of any short name.       *)
(***************************************************************************)
EXTENDS Integers, Sequences, FiniteSets, TLC

---------------------------------------------------------------------------
(* Bounds of the model *)

\* number of runs of main() in one behaviour
MaxRuns == 2
\* number of calls (listing, download, write) that fail in one behaviour
MaxFailures == 1
\* modifiedTime values are 1..MaxTime
MaxTime == 2
\* length of the file names safeName is applied to in SpecSafeName
MaxLen == 3

---------------------------------------------------------------------------
(* Program constants *)

PUBLIC_DIR == << <<"p","u","b","l","i","c">> >>

IGNORED_FOLDERS ==
  << <<"a","s","s","e","t","s">>,
     <<"c","u","r","s","o","r","s">>,
     <<"p","r","i","v","a","t","e">> >>

IGNORE_GOOGLE_MIMES ==
  << <<"a","p","p","l","i","c","a","t","i","o","n","/","v","n","d",".",
       "g","o","o","g","l","e","-","a","p","p","s",".">> >>

FOLDER_MIME ==
  <<"a","p","p","l","i","c","a","t","i","o","n","/","v","n","d",".",
    "g","o","o","g","l","e","-","a","p","p","s",".","f","o","l","d","e","r">>

ROOT_KEY == <<"p","u","b","l","i","c","-","r","o","o","t">>

\* the characters of the class [\/\\?%*:|"<>] in safeName
ILLEGAL_CHARS == {"/", "\\", "?", "%", "*", ":", "|", "\"", "<", ">"}

\* stands for the replacement character U+00B7 (middle dot) of safeName
PLACEHOLDER == "~"

WHITESPACE == {" ", "\t", "\n"}

---------------------------------------------------------------------------
(* String functions of the JavaScript runtime, on character sequences *)

UPPER == <<"A","B","C","D","E","F","G","H","I","J","K","L","M",
           "N","O","P","Q","R","S","T","U","V","W","X","Y","Z">>
LOWER == <<"a","b","c","d","e","f","g","h","i","j","k","l","m",
           "n","o","p","q","r","s","t","u","v","w","x","y","z">>

LowerChar(c) ==
  IF \E k \in 1..26 : UPPER[k] = c
  THEN LOWER[CHOOSE k \in 1..26 : UPPER[k] = c]
  ELSE c

toLowerCase(s) == [k \in 1..Len(s) |-> LowerChar(s[k])]

includes(s, x) ==
  \E k \in 1..(Len(s) - Len(x) + 1) : SubSeq(s, k, k + Len(x) - 1) = x

startsWith(s, p) == Len(s) >= Len(p) /\ SubSeq(s, 1, Len(p)) = p

trim(s) ==
  LET keep == {k \in 1..Len(s) : s[k] \notin WHITESPACE}
  IN IF keep = {} THEN <<>>
     ELSE SubSeq(s, CHOOSE k \in keep : \A j \in keep : k <= j,
                    CHOOSE k \in keep : \A j \in keep : k >= j)

\* safeName without the trim
safeName_NoTrim(name) ==
  [k \in 1..Len(name) |->
     IF name[k] \in ILLEGAL_CHARS THEN PLACEHOLDER ELSE name[k]]

safeName(name) ==
  trim([k \in 1..Len(name) |->
          IF name[k] \in ILLEGAL_CHARS THEN PLACEHOLDER ELSE name[k]])

\* path.join(dir, name) for a name without separators
pathJoin(dir, name) == Append(dir, name)

---------------------------------------------------------------------------
(* Insertion-ordered maps (JavaScript objects with string keys) *)

Has(m, k) == \E n \in 1..Len(m) : m[n].key = k
Get(m, k) == m[CHOOSE n \in 1..Len(m) : m[n].key = k].val
Put(m, k, v) ==
  IF Has(m, k)
  THEN [n \in 1..Len(m) |-> IF m[n].key = k THEN [key |-> k, val |-> v] ELSE m[n]]
  ELSE Append(m, [key |-> k, val |-> v])
KeysOf(m) == [n \in 1..Len(m) |-> m[n].key]
KeySet(m) == {m[n].key : n \in 1..Len(m)}
Range(s) == {s[n] : n \in 1..Len(s)}

---------------------------------------------------------------------------
(* The remote store behind drive.files.list / drive.files.get *)

\* GOOGLE_DRIVE_FOLDER_ID
ROOT_ID == "root"

PNG == <<"i","m","a","g","e","/","p","n","g">>
DOC_MIME ==
  <<"a","p","p","l","i","c","a","t","i","o","n","/","v","n","d",".",
    "g","o","o","g","l","e","-","a","p","p","s",".",
    "d","o","c","u","m","e","n","t">>

\* the order in which the API returns files
IdOrder == <<"f1", "f2", "f3", "f4", "r1", "d2", "a1", "a2", "d1", "n1", "y1", "x1">>
Ids == Range(IdOrder)

DriveFile(name, mimeType, parent, trashed) ==
  [name |-> name, mimeType |-> mimeType, modifiedTime |-> 1,
   parent |-> parent, trashed |-> trashed]

\* f1 "Pics", f2 "MyAssets", f3 "public-root" and the empty f4 "New" are
\* top-level folders; r1 " c" and the native document d2 are loose top-level
\* files; a1 "a/b", a2 "a:b" (no mimeType), the native document d1 and the
\* nameless n1 are in f1; y1 is in f2; x1 is in f3.
InitialDrive ==
  [id \in Ids |->
     CASE id = "f1" -> DriveFile(<<"P","i","c","s">>, FOLDER_MIME, ROOT_ID, FALSE)
       [] id = "f2" -> DriveFile(<<"M","y","A","s","s","e","t","s">>, FOLDER_MIME, ROOT_ID, FALSE)
       [] id = "f3" -> DriveFile(ROOT_KEY, FOLDER_MIME, ROOT_ID, TRUE)
       [] id = "f4" -> DriveFile(<<"N","e","w">>, FOLDER_MIME, ROOT_ID, FALSE)
       [] id = "r1" -> DriveFile(<<" ","c">>, PNG, ROOT_ID, FALSE)
       [] id = "d2" -> DriveFile(<<"d","o","c">>, DOC_MIME, ROOT_ID, FALSE)
       [] id = "a1" -> DriveFile(<<"a","/","b">>, PNG, "f1", FALSE)
       [] id = "a2" -> DriveFile(<<"a",":","b">>, <<>>, "f1", FALSE)
       [] id = "d1" -> DriveFile(<<"d","o","c">>, DOC_MIME, "f1", FALSE)
       [] id = "n1" -> DriveFile(<<>>, PNG, "f1", FALSE)
       [] id = "y1" -> DriveFile(<<"y">>, PNG, "f2", FALSE)
       [] id = "x1" -> DriveFile(<<"x">>, PNG, "f3", FALSE)]

\* what the users of the drive never change in this model
mimeTypeOf(id) == InitialDrive[id].mimeType
parentOf(id) == InitialDrive[id].parent

\* what they change: the drive as the variable holds it
Mutable(file) ==
  [name |-> file.name, modifiedTime |-> file.modifiedTime,
   trashed |-> file.trashed]

\* the files a user of the drive trashes / restores, edits
Trashable == {"a2", "f3"}
Editable == {"a1"}

---------------------------------------------------------------------------
(* Files on disk *)

EMPTY_STATE == [dirs |-> <<>>]

AbsentFile == [tag |-> "absent", dirs |-> <<>>]
CorruptFile == [tag |-> "corrupt", dirs |-> <<>>]
\* a state file that JSON.parse accepts and that is not of the shape
\* { dirs: ... }, such as {} or null
OtherJsonFile == [tag |-> "other", dirs |-> <<>>]

\* what JSON.parse returns for OtherJsonFile: a value whose dirs is undefined
\* (the field dirs is here only so that every value of state has one)
NO_DIRS == [dirs |-> <<>>, shape |-> "other"]
\* st.dirs is an object
HasDirs(st) == DOMAIN st = {"dirs"}

\* JSON.stringify(state, null, 2) written to STATE_PATH
JsonOfState(st) == [tag |-> "json", dirs |-> st.dirs]

NoIndex == [tag |-> "absent", map |-> <<>>]

FileState(name, modifiedTime, mimeType) ==
  [name |-> name, modifiedTime |-> modifiedTime, mimeType |-> mimeType]

\* a state file left by a release whose folder filter let "MyAssets" through,
\* with the file it downloaded then
LegacyFile ==
  [tag |-> "json",
   dirs |-> << [key |-> <<"M","y","A","s","s","e","t","s">>,
                val |-> [files |-> << [key |-> "y1",
                                       val |-> FileState(<<"y">>, 1, PNG)] >>]] >>]

\* what a path holds: the bytes of the drive file id, all of them ("full") or
\* a prefix ("partial"); nothing ("empty"); or a directory ("dir")
Content(id, part) == [id |-> id, part |-> part]
DirMark == Content("", "dir")

LegacyDisk ==
  { <<PUBLIC_DIR, DirMark>>,
    <<pathJoin(PUBLIC_DIR, <<"M","y","A","s","s","e","t","s">>), DirMark>>,
    <<pathJoin(pathJoin(PUBLIC_DIR, <<"M","y","A","s","s","e","t","s">>), <<"y">>),
      Content("y1", "full")>> }

Exists(d, path) == \E e \in d : e[1] = path
WriteFile(d, path, content) == {e \in d : e[1] # path} \cup {<<path, content>>}
\* fs.mkdir(path, { recursive: true })
Mkdir(d, path) ==
  d \cup {<<SubSeq(path, 1, n), DirMark>> : n \in 1..Len(path)}

---------------------------------------------------------------------------
VARIABLES
  drive,      \* the remote store: id -> name, modifiedTime, trashed
  stateFile,  \* contents of STATE_PATH (.drive-sync.json)
  indexFile,  \* contents of DATA_DIR/media-map.json
  disk,       \* the local tree under PUBLIC_DIR: set of <<path, content>>
  state,      \* main: state
  pc,         \* position of the running process: idle, folders, add, save,
              \* index, done, failed
  err,        \* what made the run fail: none, list, state, download, save,
              \* index
  folders,    \* main: folders (name -> id)
  rootFiles,  \* main: rootFiles
  fi,         \* main: position in Object.entries(folders); Len + 1 is the root
  files,      \* syncFolder: files
  key,        \* syncFolder: key
  localPath,  \* syncFolder: localPath
  i,          \* syncFolder: position of the add/update loop in files
  driveIds,   \* syncFolder: driveIds
  log,        \* the calls this run has made, in order
  mark,       \* length of log when the current syncFolder began
  known0,     \* state.dirs[key].files when the current syncFolder began
  run,        \* number of runs started
  startFile,  \* stateFile when this run began
  startIndex, \* indexFile when this run began
  stable,     \* the last run succeeded and the drive is as it was in that run
  rerun,      \* this run began with stable
  failures    \* number of calls that have failed so far, in any run

vars == <<drive, stateFile, indexFile, disk, state, pc, err, folders, rootFiles,
          fi, files, key, localPath, i, driveIds, log, mark, known0, run,
          startFile, startIndex, stable, rerun, failures>>

locals == <<folders, rootFiles, fi, files, key, localPath, i, driveIds>>
history == <<mark, known0, startFile, startIndex, rerun>>

Ev(op, k, id, path, ok) ==
  [op |-> op, key |-> k, id |-> id, path |-> path, ok |-> ok]

Init ==
  /\ drive = [id \in Ids |-> Mutable(InitialDrive[id])]
  /\ \E start \in {AbsentFile, LegacyFile, OtherJsonFile} :
       /\ stateFile = start
       /\ disk = IF start = LegacyFile THEN LegacyDisk ELSE {}
  /\ indexFile = NoIndex
  /\ state = EMPTY_STATE
  /\ pc = "idle"
  /\ err = "none"
  /\ folders = <<>>
  /\ rootFiles = <<>>
  /\ fi = 1
  /\ files = <<>>
  /\ key = <<>>
  /\ localPath = <<>>
  /\ i = 1
  /\ driveIds = {}
  /\ log = <<>>
  /\ mark = 0
  /\ known0 = <<>>
  /\ run = 0
  /\ startFile = AbsentFile
  /\ startIndex = NoIndex
  /\ stable = FALSE
  /\ rerun = FALSE
  /\ failures = 0

---------------------------------------------------------------------------
(* Functions of the program *)

\* JSON.parse(raw) for a file that parses, whatever its shape; EMPTY_STATE
\* when fs.readFile or JSON.parse throws
loadState(file) ==
  CASE file.tag = "json" -> [dirs |-> file.dirs]
    [] file.tag = "other" -> NO_DIRS
    [] OTHER -> EMPTY_STATE

\* q: '<folderId>' in parents and trashed = false; fields id, name, mimeType,
\* modifiedTime
listFolder(d, folderId) ==
  LET sel == SelectSeq(IdOrder,
                       LAMBDA id : parentOf(id) = folderId /\ ~d[id].trashed)
  IN [n \in 1..Len(sel) |->
        [id |-> sel[n], name |-> d[sel[n]].name,
         mimeType |-> mimeTypeOf(sel[n]),
         modifiedTime |-> d[sel[n]].modifiedTime]]

\* IsIgnoredFolder without toLowerCase
IsIgnoredFolder_CaseSensitive(name) ==
  \E k \in 1..Len(IGNORED_FOLDERS) : includes(name, IGNORED_FOLDERS[k])

\* IGNORED_FOLDERS.some(x => nameLc.includes(x)), nameLc = name.toLowerCase()
IsIgnoredFolder(name) ==
  \E k \in 1..Len(IGNORED_FOLDERS) :
    includes(toLowerCase(name), IGNORED_FOLDERS[k])

\* IsGoogleMime with equality in place of startsWith
IsGoogleMime_Exact(mimeType) ==
  \E k \in 1..Len(IGNORE_GOOGLE_MIMES) : mimeType = IGNORE_GOOGLE_MIMES[k]

\* IGNORE_GOOGLE_MIMES.some(m => mimeType?.startsWith(m))
IsGoogleMime(mimeType) ==
  \E k \in 1..Len(IGNORE_GOOGLE_MIMES) :
    startsWith(mimeType, IGNORE_GOOGLE_MIMES[k])

\* main: the folders object after the loop over rootItems
FoldersOf(rootItems) ==
  LET f[n \in 0..Len(rootItems)] ==
        IF n = 0 THEN <<>>
        ELSE LET item == rootItems[n]
             IN IF /\ item.name # <<>>
                   /\ item.mimeType # <<>>
                   /\ item.mimeType = FOLDER_MIME
                   /\ ~IsIgnoredFolder(item.name)
                THEN Put(f[n - 1], item.name, item.id)
                ELSE f[n - 1]
  IN f[Len(rootItems)]

\* main: the rootFiles array after the loop over rootItems
RootFilesOf(rootItems) ==
  SelectSeq(rootItems,
            LAMBDA item : /\ item.name # <<>>
                          /\ item.mimeType # <<>>
                          /\ item.mimeType # FOLDER_MIME
                          /\ ~IsGoogleMime(item.mimeType))

\* syncFolder: the two continue tests of the add/update loop
Skipped(f) ==
  \/ f.id = "" \/ f.name = <<>>
  \/ IsGoogleMime(f.mimeType)

\* Changed with a look at the local file added: a recorded file that is not
\* on disk counts as changed
Changed_OrMissing(known, f) ==
  IF ~Has(known, f.id) THEN TRUE
  ELSE \/ Get(known, f.id).modifiedTime # f.modifiedTime
       \/ ~Exists(disk, pathJoin(localPath, Get(known, f.id).name))

\* Changed with a comparison of the names added
Changed_OrRenamed(known, f) ==
  IF ~Has(known, f.id) THEN TRUE
  ELSE \/ Get(known, f.id).modifiedTime # f.modifiedTime
       \/ Get(known, f.id).name # safeName(f.name)

\* Changed without the comparison of the timestamps
Changed_OnlyNew(known, f) == ~Has(known, f.id)

\* syncFolder: !known[f.id] || known[f.id].modifiedTime !== f.modifiedTime
Changed(known, f) ==
  IF ~Has(known, f.id) THEN TRUE
  ELSE Get(known, f.id).modifiedTime # f.modifiedTime

\* syncFolder: state.dirs[key].files
KnownOf(st, k) == Get(st.dirs, k).files

SetKnown(st, k, known) ==
  [dirs |-> Put(st.dirs, k, [files |-> known])]

\* MediaMap without the special case of the root key
MediaMap_NoRootCase(st) ==
  [n \in 1..Len(st.dirs) |->
     [key |-> st.dirs[n].key,
      val |-> [m \in 1..Len(st.dirs[n].val.files) |->
                 <<"/">> \o st.dirs[n].key \o <<"/">>
                   \o st.dirs[n].val.files[m].val.name]]]

\* main: the mediaMap object
MediaMap(st) ==
  [n \in 1..Len(st.dirs) |->
     LET folder == st.dirs[n].key
         fls == st.dirs[n].val.files
     IN [key |-> folder,
         val |-> [m \in 1..Len(fls) |->
                    IF folder = ROOT_KEY
                    THEN <<"/">> \o fls[m].val.name
                    ELSE <<"/">> \o folder \o <<"/">> \o fls[m].val.name]]]

---------------------------------------------------------------------------
(* The steps of main() *)

\* main up to the partition of rootItems; the top-level listing succeeded
StartRun ==
  /\ pc = "idle"
  /\ run < MaxRuns
  /\ run' = run + 1
  /\ state' = loadState(stateFile)
  /\ LET rootItems == listFolder(drive, ROOT_ID)
     IN /\ folders' = FoldersOf(rootItems)
        /\ rootFiles' = RootFilesOf(rootItems)
  /\ fi' = 1
  /\ log' = <<Ev("list", <<>>, ROOT_ID, <<>>, TRUE)>>
  /\ pc' = "folders"
  /\ err' = "none"
  /\ startFile' = stateFile
  /\ startIndex' = indexFile
  /\ rerun' = stable
  /\ stable' = FALSE
  /\ UNCHANGED <<drive, stateFile, indexFile, disk, files, key, localPath, i,
                 driveIds, mark, known0, failures>>

\* main: listFolder(drive, folderId) throws
StartRunListFails ==
  /\ pc = "idle"
  /\ run < MaxRuns
  /\ run' = run + 1
  /\ state' = loadState(stateFile)
  /\ log' = <<Ev("list", <<>>, ROOT_ID, <<>>, FALSE)>>
  /\ pc' = "failed"
  /\ err' = "list"
  /\ startFile' = stateFile
  /\ startIndex' = indexFile
  /\ rerun' = stable
  /\ stable' = FALSE
  /\ failures < MaxFailures
  /\ failures' = failures + 1
  /\ UNCHANGED <<drive, stateFile, indexFile, disk, locals, mark, known0>>

\* syncFolder up to the add/update loop, called with (fs, path, k); lg is the
\* log at the call
SyncBegin(fs, path, k, lg) ==
  /\ HasDirs(state)
  /\ disk' = Mkdir(disk, path)
  /\ state' = IF Has(state.dirs, k) THEN state ELSE SetKnown(state, k, <<>>)
  /\ files' = fs
  /\ localPath' = path
  /\ key' = k
  /\ driveIds' = {fs[n].id : n \in 1..Len(fs)}
  /\ i' = 1
  /\ log' = Append(lg, Ev("sync", k, "", path, TRUE))
  /\ mark' = Len(lg) + 1
  /\ known0' = KnownOf(state', k)
  /\ pc' = "add"

\* main: one turn of the loop over Object.entries(folders), up to the
\* add/update loop of its syncFolder
SyncNextFolder ==
  /\ pc = "folders"
  /\ fi <= Len(folders)
  /\ LET name == folders[fi].key
         id == folders[fi].val
     IN SyncBegin(listFolder(drive, id), pathJoin(PUBLIC_DIR, name), name,
                  Append(log, Ev("list", name, id, <<>>, TRUE)))
  /\ UNCHANGED <<drive, stateFile, indexFile, folders, rootFiles, fi, run,
                 err, startFile, startIndex, stable, rerun, failures>>

\* FolderListFails with the failure caught and the run going on to saveState
FolderListFails_Caught ==
  /\ pc = "folders"
  /\ fi <= Len(folders)
  /\ log' = Append(log, Ev("list", folders[fi].key, folders[fi].val, <<>>, FALSE))
  /\ pc' = "save"
  /\ err' = "list"
  /\ failures < MaxFailures
  /\ failures' = failures + 1
  /\ UNCHANGED <<drive, stateFile, indexFile, disk, state, locals, mark,
                 known0, run, startFile, startIndex, stable, rerun>>

\* main: listFolder(drive, id) throws in the loop over the folders
FolderListFails ==
  /\ pc = "folders"
  /\ fi <= Len(folders)
  /\ log' = Append(log, Ev("list", folders[fi].key, folders[fi].val, <<>>, FALSE))
  /\ pc' = "failed"
  /\ err' = "list"
  /\ failures < MaxFailures
  /\ failures' = failures + 1
  /\ UNCHANGED <<drive, stateFile, indexFile, disk, state, locals, mark,
                 known0, run, startFile, startIndex, stable, rerun>>

\* main: syncFolder(drive, rootFiles, PUBLIC_DIR, state, 'public-root'), up to
\* its add/update loop
SyncRoot ==
  /\ pc = "folders"
  /\ fi = Len(folders) + 1
  /\ SyncBegin(rootFiles, PUBLIC_DIR, ROOT_KEY, log)
  /\ UNCHANGED <<drive, stateFile, indexFile, folders, rootFiles, fi, run,
                 err, startFile, startIndex, stable, rerun, failures>>

\* syncFolder: state.dirs is undefined, and state.dirs[key] throws a TypeError
\* after the mkdir; nothing between it and the end of main catches
SyncFolderThrows ==
  /\ pc = "folders"
  /\ ~HasDirs(state)
  /\ LET inLoop == fi <= Len(folders)
         k == IF inLoop THEN folders[fi].key ELSE ROOT_KEY
         path == IF inLoop THEN pathJoin(PUBLIC_DIR, k) ELSE PUBLIC_DIR
         lg == IF inLoop
               THEN Append(log, Ev("list", k, folders[fi].val, <<>>, TRUE))
               ELSE log
     IN /\ disk' = Mkdir(disk, path)
        /\ log' = Append(lg, Ev("sync", k, "", path, FALSE))
  /\ pc' = "failed"
  /\ err' = "state"
  /\ UNCHANGED <<drive, stateFile, indexFile, state, locals, mark, known0,
                 run, startFile, startIndex, stable, rerun, failures>>

\* syncFolder: one turn of the add/update loop that downloads nothing
SkipEntry ==
  /\ pc = "add"
  /\ i <= Len(files)
  /\ Skipped(files[i]) \/ ~Changed(KnownOf(state, key), files[i])
  /\ i' = i + 1
  /\ UNCHANGED <<drive, stateFile, indexFile, disk, state, pc, err, folders,
                 rootFiles, fi, files, key, localPath, driveIds, log, mark,
                 known0, run, startFile, startIndex, stable, rerun, failures>>

\* DownloadOk with the files map of the directory replaced by the new record
DownloadOk_ReplacesAll ==
  /\ pc = "add"
  /\ i <= Len(files)
  /\ ~Skipped(files[i])
  /\ Changed(KnownOf(state, key), files[i])
  /\ safeName(files[i].name) # <<>>
  /\ LET f == files[i]
         outPath == pathJoin(localPath, safeName(f.name))
         saved == safeName(f.name)
     IN /\ disk' = WriteFile(disk, outPath, Content(f.id, "full"))
        /\ state' = SetKnown(state, key,
                             << [key |-> f.id,
                                 val |-> FileState(saved, f.modifiedTime, f.mimeType)] >>)
        /\ log' = Append(log, Ev("download", key, f.id, outPath, TRUE))
  /\ i' = i + 1
  /\ UNCHANGED <<drive, stateFile, indexFile, pc, err, folders, rootFiles, fi,
                 files, key, localPath, driveIds, mark, known0, run,
                 startFile, startIndex, stable, rerun, failures>>

\* syncFolder: one turn of the add/update loop; downloadBinary returns
\* safeName(file.name) (its early return is excluded by the tests of
\* Skipped, so saved is never undefined here).  For a name that safeName
\* makes empty, outPath is the directory and fs.open throws: DownloadFails.
DownloadOk ==
  /\ pc = "add"
  /\ i <= Len(files)
  /\ ~Skipped(files[i])
  /\ Changed(KnownOf(state, key), files[i])
  /\ safeName(files[i].name) # <<>>
  /\ LET f == files[i]
         outPath == pathJoin(localPath, safeName(f.name))
         saved == safeName(f.name)
     IN /\ disk' = WriteFile(disk, outPath, Content(f.id, "full"))
        /\ state' = SetKnown(state, key,
                             Put(KnownOf(state, key), f.id,
                                 FileState(saved, f.modifiedTime, f.mimeType)))
        /\ log' = Append(log, Ev("download", key, f.id, outPath, TRUE))
  /\ i' = i + 1
  /\ UNCHANGED <<drive, stateFile, indexFile, pc, err, folders, rootFiles, fi,
                 files, key, localPath, driveIds, mark, known0, run,
                 startFile, startIndex, stable, rerun, failures>>

\* downloadBinary after a failure of fs.open ("open"), of drive.files.get
\* ("request") or of the stream ("stream")
DiskAfterFailure(d, outPath, f, kind) ==
  CASE kind = "open" -> d
    [] kind = "request" -> WriteFile(d, outPath, Content("", "empty"))
    [] kind = "stream" -> WriteFile(d, outPath, Content(f.id, "partial"))

\* syncFolder: one turn of the add/update loop; downloadBinary throws, and
\* nothing between it and the end of main catches
DownloadFails ==
  /\ pc = "add"
  /\ i <= Len(files)
  /\ ~Skipped(files[i])
  /\ Changed(KnownOf(state, key), files[i])
  /\ \E kind \in {"open", "request", "stream"} :
       LET f == files[i]
           outPath == pathJoin(localPath, safeName(f.name))
       IN /\ disk' = DiskAfterFailure(disk, outPath, f, kind)
          /\ log' = Append(log, Ev("download", key, f.id, outPath, FALSE))
  /\ pc' = "failed"
  /\ err' = "download"
  /\ failures < MaxFailures
  /\ failures' = failures + 1
  /\ UNCHANGED <<drive, stateFile, indexFile, state, locals, mark, known0,
                 run, startFile, startIndex, stable, rerun>>

\* Removed with the test of driveIds.has(id) inverted
Removed_Inverted(known, ids) ==
  SelectSeq(KeysOf(known), LAMBDA id : id \in ids)

\* syncFolder: the ids the cleanup loop removes, in the order of Object.keys
Removed(known, ids) ==
  SelectSeq(KeysOf(known), LAMBDA id : id \notin ids)

\* syncFolder: the unlink calls of the cleanup loop; ok tells whether the file
\* was there
UnlinkEvents(d, known, ids, path, k) ==
  LET rm == Removed(known, ids)
      p(n) == pathJoin(path, Get(known, rm[n]).name)
  IN [n \in 1..Len(rm) |->
        Ev("unlink", k, rm[n], p(n),
           Exists(d, p(n)) /\ \A m \in 1..(n - 1) : p(m) # p(n))]

\* syncFolder: the cleanup loop, and the return to main
Cleanup ==
  /\ pc = "add"
  /\ i > Len(files)
  /\ LET known == KnownOf(state, key)
         evs == UnlinkEvents(disk, known, driveIds, localPath, key)
     IN /\ disk' = {e \in disk : \A n \in 1..Len(evs) : e[1] # evs[n].path}
        /\ state' = SetKnown(state, key,
                             SelectSeq(known,
                                       LAMBDA e : e.key \notin Range(Removed(known, driveIds))))
        /\ log' = (log \o evs) \o <<Ev("cleanup", key, "", localPath, TRUE)>>
  /\ pc' = IF fi <= Len(folders) THEN "folders" ELSE "save"
  /\ fi' = fi + 1
  /\ UNCHANGED <<drive, stateFile, indexFile, err, folders, rootFiles, files,
                 key, localPath, i, driveIds, mark, known0, run, startFile,
                 startIndex, stable, rerun, failures>>

\* main: saveState(state) returns
SaveState ==
  /\ pc = "save"
  /\ stateFile' = JsonOfState(state)
  /\ log' = Append(log, Ev("save", <<>>, "", <<>>, TRUE))
  /\ pc' = "index"
  /\ UNCHANGED <<drive, indexFile, disk, state, err, locals, mark, known0, run,
                 startFile, startIndex, stable, rerun, failures>>

\* SaveStateFails with the failure swallowed and the run going on to the index
SaveStateFails_Continues ==
  /\ pc = "save"
  /\ stateFile' \in {stateFile, CorruptFile}
  /\ log' = Append(log, Ev("save", <<>>, "", <<>>, FALSE))
  /\ pc' = "index"
  /\ err' = "save"
  /\ failures < MaxFailures
  /\ failures' = failures + 1
  /\ UNCHANGED <<drive, indexFile, disk, state, locals, mark, known0, run,
                 startFile, startIndex, stable, rerun>>

\* main: saveState(state) throws; fs.writeFile has written nothing or a part
SaveStateFails ==
  /\ pc = "save"
  /\ stateFile' \in {stateFile, CorruptFile}
  /\ log' = Append(log, Ev("save", <<>>, "", <<>>, FALSE))
  /\ pc' = "failed"
  /\ err' = "save"
  /\ failures < MaxFailures
  /\ failures' = failures + 1
  /\ UNCHANGED <<drive, indexFile, disk, state, locals, mark, known0, run,
                 startFile, startIndex, stable, rerun>>

\* main: the media map is built and written
WriteIndex ==
  /\ pc = "index"
  /\ indexFile' = [tag |-> "json", map |-> MediaMap(state)]
  /\ log' = Append(log, Ev("index", <<>>, "", <<>>, TRUE))
  /\ pc' = "done"
  /\ stable' = TRUE
  /\ UNCHANGED <<drive, stateFile, disk, state, err, locals, mark, known0, run,
                 startFile, startIndex, rerun, failures>>

\* main: fs.mkdir(DATA_DIR) or fs.writeFile of the media map throws
WriteIndexFails ==
  /\ pc = "index"
  /\ indexFile' \in {indexFile, [tag |-> "corrupt", map |-> <<>>]}
  /\ log' = Append(log, Ev("index", <<>>, "", <<>>, FALSE))
  /\ pc' = "failed"
  /\ err' = "index"
  /\ failures < MaxFailures
  /\ failures' = failures + 1
  /\ UNCHANGED <<drive, stateFile, disk, state, locals, mark, known0, run,
                 startFile, startIndex, stable, rerun>>

\* the process ends: main() has returned or its promise has rejected
Exit ==
  /\ pc \in {"done", "failed"}
  /\ pc' = "idle"
  /\ err' = "none"
  /\ state' = EMPTY_STATE
  /\ folders' = <<>>
  /\ rootFiles' = <<>>
  /\ fi' = 1
  /\ files' = <<>>
  /\ key' = <<>>
  /\ localPath' = <<>>
  /\ i' = 1
  /\ driveIds' = {}
  /\ log' = <<>>
  /\ mark' = 0
  /\ known0' = <<>>
  /\ startFile' = AbsentFile
  /\ startIndex' = NoIndex
  /\ rerun' = FALSE
  /\ UNCHANGED <<drive, stateFile, indexFile, disk, run, stable, failures>>

---------------------------------------------------------------------------
(* The users of the drive, between two runs *)

DriveChange(id, file) ==
  /\ pc = "idle"
  /\ run < MaxRuns
  /\ drive' = [drive EXCEPT ![id] = file]
  /\ stable' = FALSE
  /\ UNCHANGED <<stateFile, indexFile, disk, state, pc, err, locals, log,
                 history, run, failures>>

DriveTrash ==
  \E id \in Trashable :
    /\ ~drive[id].trashed
    /\ DriveChange(id, [drive[id] EXCEPT !.trashed = TRUE])

DriveRestore ==
  \E id \in Trashable :
    /\ drive[id].trashed
    /\ DriveChange(id, [drive[id] EXCEPT !.trashed = FALSE])

DriveEdit ==
  \E id \in Editable :
    /\ drive[id].modifiedTime < MaxTime
    /\ DriveChange(id, [drive[id] EXCEPT !.modifiedTime = @ + 1])

Next ==
  \/ StartRun
  \/ StartRunListFails
  \/ SyncNextFolder
  \/ FolderListFails
  \/ SyncRoot
  \/ SyncFolderThrows
  \/ SkipEntry
  \/ DownloadOk
  \/ DownloadFails
  \/ Cleanup
  \/ SaveState
  \/ SaveStateFails
  \/ WriteIndex
  \/ WriteIndexFails
  \/ Exit
  \/ DriveTrash
  \/ DriveRestore
  \/ DriveEdit

Spec == Init /\ [][Next]_vars

---------------------------------------------------------------------------
(* The drive with renames: a file gets another name, a folder the name of  *)
(* another folder                                                          *)

\* the files a user of the drive renames, and the name each one gets
Renamable == {"a1", "f4"}
NewName(id) == IF id = "f4" THEN <<"P","i","c","s">> ELSE <<"b">>

DriveRename ==
  \E id \in Renamable :
    /\ drive[id].name # NewName(id)
    /\ DriveChange(id, [drive[id] EXCEPT !.name = NewName(id)])

NextRename ==
  \/ StartRun
  \/ SyncNextFolder
  \/ SyncRoot
  \/ SyncFolderThrows
  \/ SkipEntry
  \/ DownloadOk
  \/ DownloadFails
  \/ Cleanup
  \/ SaveState
  \/ WriteIndex
  \/ Exit
  \/ DriveTrash
  \/ DriveEdit
  \/ DriveRename

SpecRename == Init /\ [][NextRename]_vars

---------------------------------------------------------------------------
(* The local tree changed behind the program's back, between two runs      *)

\* a file nobody downloaded
ExtraFile == <<pathJoin(PUBLIC_DIR, <<"e","x","t","r","a">>), Content("", "full")>>

\* a file vanishes, is emptied, or appears
DiskTamper ==
  /\ pc = "idle"
  /\ run < MaxRuns
  /\ \/ \E e \in disk : e[2].part = "full" /\ disk' = disk \ {e}
     \/ \E e \in disk : /\ e[2].part = "full"
                         /\ e[2].id # ""
                         /\ disk' = WriteFile(disk, e[1], Content("", "empty"))
     \/ ~Exists(disk, ExtraFile[1]) /\ disk' = disk \cup {ExtraFile}
  /\ UNCHANGED <<drive, stateFile, indexFile, state, pc, err, locals, log,
                 history, run, stable, failures>>

NextTamper ==
  \/ StartRun
  \/ SyncNextFolder
  \/ SyncRoot
  \/ SyncFolderThrows
  \/ SkipEntry
  \/ DownloadOk
  \/ DownloadFails
  \/ Cleanup
  \/ SaveState
  \/ WriteIndex
  \/ Exit
  \/ DriveTrash
  \/ DriveEdit
  \/ DiskTamper

SpecTamper == Init /\ [][NextTamper]_vars

---------------------------------------------------------------------------
(* safeName on its own: one loose top-level file, of any name up to MaxLen *)
(* characters, is synchronised                                             *)

Alphabet == {"a", " ", "\t", "/", ":", "~"}

\* 'a/b:c*d.png'
ExampleName == <<"a","/","b",":","c","*","d",".","p","n","g">>
\* a name between spaces with every character of the class of safeName
AllIllegalName == <<" ","/","\\","?","%","*",":","|","\"","<",">","x"," ">>

Names ==
  UNION {[1..n -> Alphabet] : n \in 0..MaxLen}
    \cup {ExampleName, AllIllegalName}

InitSafeName ==
  /\ \E name \in Names :
       drive = [id \in Ids |->
                  IF id = "r1"
                  THEN [name |-> name, modifiedTime |-> 1, trashed |-> FALSE]
                  ELSE [Mutable(InitialDrive[id]) EXCEPT !.trashed = TRUE]]
  /\ stateFile = AbsentFile
  /\ disk = {}
  /\ indexFile = NoIndex
  /\ state = EMPTY_STATE
  /\ pc = "idle"
  /\ err = "none"
  /\ folders = <<>>
  /\ rootFiles = <<>>
  /\ fi = 1
  /\ files = <<>>
  /\ key = <<>>
  /\ localPath = <<>>
  /\ i = 1
  /\ driveIds = {}
  /\ log = <<>>
  /\ mark = 0
  /\ known0 = <<>>
  /\ run = 0
  /\ startFile = AbsentFile
  /\ startIndex = NoIndex
  /\ stable = FALSE
  /\ rerun = FALSE
  /\ failures = 0

NextSafeName ==
  \/ StartRun
  \/ SyncRoot
  \/ SkipEntry
  \/ DownloadOk
  \/ DownloadFails
  \/ Cleanup
  \/ SaveState
  \/ WriteIndex
  \/ Exit

SpecSafeName == InitSafeName /\ [][NextSafeName]_vars

---------------------------------------------------------------------------
(* Properties *)

Indices(op) == {n \in 1..Len(log) : log[n].op = op}

\* the calls of the syncFolder that began last
SyncIndices(op) == {n \in (mark + 1)..Len(log) : log[n].op = op}

\* the record stored for id in a files map: <<record>> or <<>>
RecordOf(known, id) == IF Has(known, id) THEN <<Get(known, id)>> ELSE <<>>

\* the directory state stored under k: <<directory state>> or <<>>
DirStateOf(st, k) == IF Has(st.dirs, k) THEN <<Get(st.dirs, k)>> ELSE <<>>

NativePrefix ==
  <<"a","p","p","l","i","c","a","t","i","o","n","/","v","n","d",".",
    "g","o","o","g","l","e","-","a","p","p","s",".">>

\* C1 (as claimed): a run that starts from the state a successful run
\* persisted, against the same drive, attempts no download, deletes no file
\* and no record, and persists the state it started from.
C1_Idempotence ==
  rerun =>
    /\ \A n \in 1..Len(log) : log[n].op \notin {"download", "unlink"}
    /\ pc = "done" => stateFile = startFile

\* the add/update loop has decided the entries files[1..DecidedUpTo]
DecidedUpTo == IF pc = "failed" /\ err = "download" THEN i ELSE i - 1

\* the condition of C2, on an entry and the files map at the start of the
\* reconcile
C2_Condition(f, known) ==
  /\ f.id # ""
  /\ f.name # <<>>
  /\ ~startsWith(f.mimeType, NativePrefix)
  /\ \A n \in 1..Len(known) :
       known[n].key = f.id => known[n].val.modifiedTime # f.modifiedTime

SyncReturned == (pc = "folders" /\ fi > 1) \/ pc = "save"

\* C3: when a reconcile has returned, every record that was stored for an id
\* absent from the listing is gone and an unlink of its recorded name was
\* issued, whether the file was there or not; every record of a listed id is
\* still stored.
C3_DeletionPass ==
  SyncReturned =>
    LET listed == {files[n].id : n \in 1..Len(files)}
        now == KnownOf(state, key)
    IN /\ \A n \in 1..Len(known0) :
            IF known0[n].key \in listed
            THEN Has(now, known0[n].key)
            ELSE /\ ~Has(now, known0[n].key)
                 /\ \E m \in SyncIndices("unlink") :
                      /\ log[m].id = known0[n].key
                      /\ log[m].path = pathJoin(localPath, known0[n].val.name)
                 /\ ~Exists(disk, pathJoin(localPath, known0[n].val.name))
       /\ \A n \in SyncIndices("download") : Has(now, log[n].id)
       /\ \A n \in 1..Len(now) : now[n].key \in listed

\* a reconcile has removed a record whose file was on disk and kept the
\* record of a listed id, and the last reconcile has removed a record whose
\* file was not on disk
C3_Witness ==
  /\ SyncReturned
  /\ \E m \in Indices("unlink") :
       /\ log[m].ok
       /\ \E id \in Ids :
            /\ Has(KnownOf(loadState(startFile), log[m].key), id)
            /\ Has(KnownOf(state, log[m].key), id)
  /\ \E m \in SyncIndices("unlink") : ~log[m].ok

\* C4 (as claimed): when a download has failed, the run has nevertheless
\* finished the reconcile of that directory (the remaining entries and the
\* deletion pass), reconciled every other directory and saved the state.
C4_FailureIsolation ==
  (pc \in {"done", "failed"} /\ \E n \in Indices("download") : ~log[n].ok) =>
    /\ \A n \in Indices("download") :
         ~log[n].ok => \E m \in Indices("cleanup") : m > n /\ log[m].key = log[n].key
    /\ \A k \in KeySet(folders) \cup {ROOT_KEY} :
         \E m \in Indices("cleanup") : log[m].key = k
    /\ Indices("save") # {}

\* the files map persisted under k: that of the state file, empty if none
PersistedKnown(file, k) ==
  IF Has(loadState(file).dirs, k) THEN KnownOf(loadState(file), k) ELSE <<>>

\* C5 (as claimed): when the download of an entry has failed, the record of
\* its id is what it was before the attempt, in memory and in the state file
\* the next run will load, and that run will find the entry changed.
C5_FailedDownloadKeepsRecord ==
  (pc = "failed" /\ err = "download") =>
    LET id == files[i].id
        before == RecordOf(known0, id)
    IN /\ RecordOf(KnownOf(state, key), id) = before
       /\ RecordOf(PersistedKnown(stateFile, key), id) = before
       /\ \A n \in 1..Len(before) : before[n].modifiedTime # files[i].modifiedTime

\* C6: the state file is written at most once in a run, and only after the
\* reconcile of every retained folder and of the root has returned; until
\* then it holds what it held when the run began; a run that a listing
\* failure ended has written neither the state file nor the index.
C6_NoPartialFlush ==
  pc # "idle" =>
    /\ Cardinality(Indices("save")) <= 1
    /\ \A n \in Indices("save") :
         \A k \in KeySet(folders) \cup {ROOT_KEY} :
           \E m \in Indices("cleanup") : m < n /\ log[m].key = k
    /\ Indices("save") = {} => stateFile = startFile
    /\ err = "list" =>
         /\ Indices("save") = {} /\ Indices("index") = {}
         /\ stateFile = startFile
         /\ indexFile = startIndex

\* a listing failed after a folder had been reconciled into the state in
\* memory
C6_Witness ==
  /\ pc = "failed"
  /\ err = "list"
  /\ fi > 1
  /\ \E n \in Indices("download") : log[n].ok
  /\ state # loadState(stateFile)

\* the condition of C7 on a folder name
C7_Denied(name) ==
  \E bad \in {<<"a","s","s","e","t","s">>, <<"c","u","r","s","o","r","s">>,
              <<"p","r","i","v","a","t","e">>} :
    includes(toLowerCase(name), bad)

\* the names of the model's drive that meet the condition of C7
C7_DeniedNames == {name \in {InitialDrive[id].name : id \in Ids} : C7_Denied(name)}

\* the top-level folders of the drive that C7 is about
C7_DeniedFolders ==
  {id \in Ids : /\ parentOf(id) = ROOT_ID
                /\ ~drive[id].trashed
                /\ mimeTypeOf(id) = FOLDER_MIME
                /\ IF drive[id].name = InitialDrive[id].name
                   THEN drive[id].name \in C7_DeniedNames
                   ELSE C7_Denied(drive[id].name)}

C8_NativeDocuments ==
  /\ \A n \in Indices("download") :
       ~startsWith(mimeTypeOf(log[n].id), NativePrefix)
  /\ \A st \in {state, loadState(stateFile)} :
       \A n \in 1..Len(st.dirs) :
         \A m \in 1..Len(st.dirs[n].val.files) :
           /\ ~startsWith(st.dirs[n].val.files[m].val.mimeType, NativePrefix)
           /\ ~startsWith(mimeTypeOf(st.dirs[n].val.files[m].key), NativePrefix)

\* the reconciles of a folder holding a native document and of the root,
\* with a loose native document, have returned after downloading the others
C8_Witness ==
  /\ pc = "save"
  /\ \E id \in Ids :
       /\ startsWith(mimeTypeOf(id), NativePrefix)
       /\ mimeTypeOf(id) # FOLDER_MIME
       /\ parentOf(id) = ROOT_ID
  /\ \E id \in Ids :
       /\ startsWith(mimeTypeOf(id), NativePrefix)
       /\ \E n \in Indices("list") : log[n].id = parentOf(id) /\ log[n].key # <<>>
  /\ \E n \in Indices("download") : log[n].key = ROOT_KEY
  /\ \E n \in Indices("download") : log[n].key # ROOT_KEY

\* C9: the index a successful run has written has the keys of the final
\* state, in its order, and under each key one path per record: "/" name for
\* the key public-root, "/" key "/" name for any other key.
C9_IndexOfFinalState ==
  pc = "done" =>
    LET dirs == loadState(stateFile).dirs
    IN /\ indexFile.tag = "json"
       /\ dirs = state.dirs
       /\ Len(indexFile.map) = Len(dirs)
       /\ \A n \in 1..Len(dirs) :
            /\ indexFile.map[n].key = dirs[n].key
            /\ Len(indexFile.map[n].val) = Len(dirs[n].val.files)
            /\ \A m \in 1..Len(dirs[n].val.files) :
                 indexFile.map[n].val[m] =
                   IF dirs[n].key = <<"p","u","b","l","i","c","-","r","o","o","t">>
                   THEN <<"/">> \o dirs[n].val.files[m].val.name
                   ELSE <<"/">> \o dirs[n].key \o <<"/">>
                          \o dirs[n].val.files[m].val.name

\* a run has replaced an earlier index by one with a key it did not
\* reconcile, a key without files, the root key and a folder key
C9_Witness ==
  /\ pc = "done"
  /\ startIndex.tag = "json"
  /\ indexFile # startIndex
  /\ \E n \in 1..Len(indexFile.map) :
       /\ indexFile.map[n].val # <<>>
       /\ \A m \in Indices("sync") : log[m].key # indexFile.map[n].key
  /\ \E n \in 1..Len(indexFile.map) : indexFile.map[n].val = <<>>
  /\ \E n \in 1..Len(indexFile.map) :
       indexFile.map[n].key = ROOT_KEY /\ indexFile.map[n].val # <<>>
  /\ \E n \in 1..Len(indexFile.map) :
       indexFile.map[n].key # ROOT_KEY /\ Len(indexFile.map[n].val) > 1

\* the local directory of a directory key
LocalDirOf(k) == IF k = ROOT_KEY THEN PUBLIC_DIR ELSE pathJoin(PUBLIC_DIR, k)

\* C10 (as claimed): after a successful run, no call having failed in this
\* or an earlier run, every record of the state has its file on disk.
C10_RecordsHaveFiles ==
  (pc = "done" /\ failures = 0) =>
    \A n \in 1..Len(state.dirs) :
      \A m \in 1..Len(state.dirs[n].val.files) :
        Exists(disk, pathJoin(LocalDirOf(state.dirs[n].key),
                              state.dirs[n].val.files[m].val.name))

\* the top-level folders a run retains: not trashed, named, and the lowercased
\* name without a denylist substring
C11_Retained ==
  {id \in Ids : /\ parentOf(id) = ROOT_ID
                /\ ~drive[id].trashed
                /\ mimeTypeOf(id) = FOLDER_MIME
                /\ drive[id].name # <<>>
                /\ ~C7_Denied(drive[id].name)}

\* C11 (as claimed): a successful run has listed every retained top-level
\* folder exactly once, each listing followed by the reconcile into the
\* directory keyed by the folder's name, also when two folders share a name,
\* and has reconciled the loose top-level files exactly once, into the
\* reserved root key, after all folders.
C11_OrchestrationCoverage ==
  pc = "done" =>
    /\ \A id \in C11_Retained :
         /\ Cardinality({n \in Indices("list") : log[n].id = id}) = 1
         /\ \A n \in Indices("list") :
              log[n].id = id =>
                /\ log[n + 1].op = "sync"
                /\ log[n + 1].key = drive[id].name
                /\ log[n + 1].path = pathJoin(PUBLIC_DIR, drive[id].name)
    /\ Cardinality({n \in Indices("sync") : log[n].path = PUBLIC_DIR}) = 1
    /\ \A n \in Indices("sync") :
         log[n].path = PUBLIC_DIR =>
           /\ log[n].key = ROOT_KEY
           /\ \A m \in Indices("sync") : m <= n

\* C12 (as claimed): whatever the state file held when the run began, the run
\* has started from the empty state or from the stored state, and the loaded
\* state has not made it fail.
C12_StateLoading ==
  pc # "idle" =>
    /\ \/ loadState(startFile) = [dirs |-> <<>>]
       \/ startFile.tag = "json" /\ loadState(startFile) = [dirs |-> startFile.dirs]
    /\ err # "state"

\* C13: in a run, the index is written only after a write of the state file
\* that succeeded, and then the state file holds the state in memory; when
\* the write of the state file has failed, the run has failed and has not
\* written, or tried to write, the index.
C13_PersistBeforeIndex ==
  pc # "idle" =>
    /\ \A n \in Indices("index") :
         \E m \in Indices("save") : m < n /\ log[m].ok
    /\ indexFile # startIndex =>
         /\ \E m \in Indices("save") : log[m].ok
         /\ stateFile = JsonOfState(state)
    /\ (\E m \in Indices("save") : ~log[m].ok) =>
         /\ pc = "failed"
         /\ Indices("index") = {}
         /\ indexFile = startIndex

\* the write of the state file has failed after a download had succeeded, in
\* a run that began with the index of an earlier run
C13_Witness ==
  /\ pc = "failed"
  /\ err = "save"
  /\ startIndex.tag = "json"
  /\ \E n \in Indices("download") : log[n].ok
  /\ state # loadState(startFile)

\* C14: the step in which the download of entry e of directory K succeeds
\* leaves under e.id in the files of K the record {name: safeName(e.name),
\* modifiedTime: e.modifiedTime, mimeType: e.mimeType}, whatever was stored
\* for that id before, and changes no record of another id in K and no other
\* directory of the state.
C14_UpsertOnSuccess ==
  [][(/\ Len(log') = Len(log) + 1
      /\ log'[Len(log')].op = "download"
      /\ log'[Len(log')].ok)
     => LET e == files[i]
            before == KnownOf(state, key)
            after == KnownOf(state', key)
        IN /\ log'[Len(log')].id = e.id
           /\ log'[Len(log')].key = key
           /\ RecordOf(after, e.id)
                = << [name |-> safeName(e.name),
                      modifiedTime |-> e.modifiedTime,
                      mimeType |-> e.mimeType] >>
           /\ \A id \in Ids \ {e.id} : RecordOf(after, id) = RecordOf(before, id)
           /\ KeysOf(state'.dirs) = KeysOf(state.dirs)
           /\ \A n \in 1..Len(state.dirs) :
                state.dirs[n].key # key => state'.dirs[n] = state.dirs[n]]_vars

\* a download has just succeeded for an id whose record had another
\* modifiedTime, in a directory that holds the record of another id
C14_Witness ==
  /\ pc = "add"
  /\ Len(log) > mark
  /\ log[Len(log)].op = "download"
  /\ log[Len(log)].ok
  /\ Has(known0, log[Len(log)].id)
  /\ Get(known0, log[Len(log)].id).modifiedTime
       # Get(KnownOf(state, key), log[Len(log)].id).modifiedTime
  /\ \E id \in KeySet(known0) :
       id # log[Len(log)].id /\ Has(KnownOf(state, key), id)

\* the directory key under which the run has listed id so far: that of the
\* listing of its parent folder
ListedUnder(id, k) ==
  /\ ~drive[id].trashed
  /\ \E n \in Indices("list") :
       /\ log[n].ok
       /\ log[n].id = parentOf(id)
       /\ k = IF parentOf(id) = ROOT_ID THEN ROOT_KEY ELSE log[n].key

\* the records the run began with whose entry the run has listed under the
\* same key with the recorded modifiedTime and another name: <<key, id>>
C15_RenamedOnly ==
  {e \in KeySet(loadState(startFile).dirs) \X Ids :
      /\ Has(PersistedKnown(startFile, e[1]), e[2])
      /\ ListedUnder(e[2], e[1])
      /\ Get(PersistedKnown(startFile, e[1]), e[2]).modifiedTime
           = drive[e[2]].modifiedTime
      /\ Get(PersistedKnown(startFile, e[1]), e[2]).name
           # safeName(drive[e[2]].name)}

\* C15: for an entry listed with the id and the modifiedTime of its record
\* and with another name, the run attempts no download and no deletion, the
\* record stays what it was, with the name recorded at the download, and the
\* index of a successful run has the path with that name.
C15_RenameNotDetected ==
  pc # "idle" =>
    \A e \in C15_RenamedOnly :
      LET r == Get(PersistedKnown(startFile, e[1]), e[2])
          now == IF Has(state.dirs, e[1]) THEN KnownOf(state, e[1]) ELSE <<>>
      IN /\ \A n \in 1..Len(log) :
              log[n].op \in {"download", "unlink"} => log[n].id # e[2]
         /\ RecordOf(now, e[2]) = <<r>>
         /\ pc = "done" =>
              /\ RecordOf(PersistedKnown(stateFile, e[1]), e[2]) = <<r>>
              /\ \E n \in 1..Len(indexFile.map) :
                   /\ indexFile.map[n].key = e[1]
                   /\ \E m \in 1..Len(now) :
                        /\ now[m].key = e[2]
                        /\ indexFile.map[n].val[m]
                             = IF e[1] = ROOT_KEY
                               THEN <<"/">> \o r.name
                               ELSE <<"/">> \o e[1] \o <<"/">> \o r.name

\* a run has succeeded that listed an entry with the modifiedTime of its
\* record and a name that sanitizes to another name than the recorded one,
\* after a run that had downloaded it
C15_Witness ==
  /\ pc = "done"
  /\ C15_RenamedOnly # {}
  /\ \E e \in C15_RenamedOnly :
       Exists(disk, pathJoin(LocalDirOf(e[1]),
                             Get(PersistedKnown(startFile, e[1]), e[2]).name))

\* out is s without the whitespace at its two ends
IsTrimOf(out, s) ==
  \E lo \in 1..(Len(s) + 1) :
    /\ \A k \in 1..(lo - 1) : s[k] \in {" ", "\t", "\n"}
    /\ \A k \in (lo + Len(out))..Len(s) : s[k] \in {" ", "\t", "\n"}
    /\ lo + Len(out) - 1 <= Len(s)
    /\ out = SubSeq(s, lo, lo + Len(out) - 1)
    /\ out # <<>> =>
         /\ out[1] \notin {" ", "\t", "\n"}
         /\ out[Len(out)] \notin {" ", "\t", "\n"}

\* C16: for the name of the synchronised file, safeName returns the name
\* with each of / \ ? % * : | " < > replaced by the placeholder and the
\* whitespace at the two ends removed; the result has none of these
\* characters and the others where they were; safeName of the result is the
\* result; 'a/b:c*d.png' gives 'a~b~c~d.png' (~ for the placeholder); and
\* the result is the name of the record and of the file of every download.
C16_Sanitizer ==
  LET name == drive["r1"].name
      out == safeName(name)
      class == {"/", "\\", "?", "%", "*", ":", "|", "\"", "<", ">"}
      replaced == [k \in 1..Len(name) |->
                     IF name[k] \in class THEN "~" ELSE name[k]]
  IN /\ IsTrimOf(out, replaced)
     /\ \A k \in 1..Len(out) : out[k] \notin class
     /\ safeName(out) = out
     /\ name = <<"a","/","b",":","c","*","d",".","p","n","g">> =>
          out = <<"a","~","b","~","c","~","d",".","p","n","g">>
     /\ \A n \in Indices("download") :
          log[n].id = "r1" => log[n].path = <<PUBLIC_DIR[1], out>>
     /\ \A n \in 1..Len(state.dirs) :
          \A m \in 1..Len(state.dirs[n].val.files) :
            state.dirs[n].val.files[m].key = "r1" =>
              state.dirs[n].val.files[m].val.name = out

\* a run has downloaded a file whose name has a character of the class
\* between other characters and whitespace at both ends
C16_Witness ==
  /\ pc = "done"
  /\ \E n \in Indices("download") : log[n].id = "r1" /\ log[n].ok
  /\ Len(drive["r1"].name) > 2
  /\ drive["r1"].name[1] = " "
  /\ drive["r1"].name[Len(drive["r1"].name)] = " "
  /\ \E k \in 2..(Len(drive["r1"].name) - 1) : drive["r1"].name[k] = "/"
  /\ Len(safeName(drive["r1"].name)) < Len(drive["r1"].name)

\* the reconcile of one directory, as the claims describe it, from the files
\* map known, the listing fs and the local path alone: the downloads and the
\* deletions, as <<id, path>>, and the files map it leaves
C17_Plan(known, fs, path) ==
  LET listed == {fs[n].id : n \in 1..Len(fs)}
      wanted == {n \in 1..Len(fs) : C2_Condition(fs[n], known)}
      up[n \in 0..Len(fs)] ==
        IF n = 0 THEN known
        ELSE IF n \in wanted
             THEN Put(up[n - 1], fs[n].id,
                      [name |-> safeName(fs[n].name),
                       modifiedTime |-> fs[n].modifiedTime,
                       mimeType |-> fs[n].mimeType])
             ELSE up[n - 1]
      all == up[Len(fs)]
  IN [downloads |-> {<<fs[n].id, pathJoin(path, safeName(fs[n].name))>> :
                       n \in wanted},
      unlinks |-> {<<all[n].key, pathJoin(path, all[n].val.name)>> :
                     n \in {m \in 1..Len(all) : all[m].key \notin listed}},
      known |-> SelectSeq(all, LAMBDA e : e.key \in listed)]

\* the whole run, from the state file it began with and the drive alone: the
\* retained folders in the order of the listing, then the loose files
C17_Run ==
  LET rootItems == listFolder(drive, ROOT_ID)
      fd == FoldersOf(rootItems)
      r[n \in 0..(Len(fd) + 1)] ==
        IF n = 0
        THEN [st |-> [dirs |-> loadState(startFile).dirs],
              downloads |-> {}, unlinks |-> {}]
        ELSE LET k == IF n <= Len(fd) THEN fd[n].key ELSE ROOT_KEY
                 path == IF n <= Len(fd) THEN pathJoin(PUBLIC_DIR, k)
                         ELSE PUBLIC_DIR
                 fs == IF n <= Len(fd) THEN listFolder(drive, fd[n].val)
                       ELSE RootFilesOf(rootItems)
                 prev == r[n - 1]
                 st == prev.st
                 known == IF Has(st.dirs, k) THEN KnownOf(st, k) ELSE <<>>
                 plan == C17_Plan(known, fs, path)
             IN [st |-> SetKnown(st, k, plan.known),
                 downloads |-> prev.downloads \cup plan.downloads,
                 unlinks |-> prev.unlinks \cup plan.unlinks]
  IN r[Len(fd) + 1]

C18_Mirrors(k, parent) ==
  LET known == PersistedKnown(stateFile, k)
      children == {id \in Ids : /\ parentOf(id) = parent
                                /\ ~drive[id].trashed
                                /\ drive[id].name # <<>>
                                /\ ~startsWith(mimeTypeOf(id), NativePrefix)}
  IN /\ KeySet(known) = children
     /\ \A n \in 1..Len(known) :
          known[n].val.modifiedTime = drive[known[n].key].modifiedTime

\* C18 (as claimed): after a successful run the state file holds, under the
\* name of every retained top-level folder, the records of exactly its
\* eligible children, and under the reserved root key those of exactly the
\* loose eligible top-level files, whatever the folders are named.
C18_StateMirrorsRemote ==
  pc = "done" =>
    /\ \A id \in C11_Retained : C18_Mirrors(drive[id].name, id)
    /\ C18_Mirrors(ROOT_KEY, ROOT_ID)

\* C19 (as claimed): after a successful run, no call having failed in this or
\* an earlier run, every downloaded file in the local tree is the file of a
\* record: some directory of the state has a record whose name, joined to
\* the local path of the directory, is the path of the file.
C19_NoOrphanFiles ==
  (pc = "done" /\ failures = 0) =>
    \A e \in disk :
      e[2].part = "full" =>
        \E n \in 1..Len(state.dirs) :
          \E m \in 1..Len(state.dirs[n].val.files) :
            e[1] = pathJoin(LocalDirOf(state.dirs[n].key),
                            state.dirs[n].val.files[m].val.name)

\* C20 (as claimed): when the download of an entry that has a record has
\* failed, the file at the destination path is a completely written file,
\* as the last successful download left it, neither empty nor partial.
C20_FailedDownloadKeepsFile ==
  (pc = "failed" /\ err = "download" /\ Has(known0, files[i].id)) =>
    LET outPath == pathJoin(localPath, safeName(files[i].name))
    IN /\ Get(KnownOf(state, key), files[i].id) = Get(known0, files[i].id)
       /\ \A e \in disk : e[1] = outPath => e[2].part = "full"

====
